---- MODULE Spec2Model ----
(***************************************************************************)
(* State-machine model of tick's SVRG solver                               *)
(* (src/tick/optim/solver/src/svrg.cpp).                                   *)
(*                                                                         *)
(* One solver instance.  Its C++ doubles are modelled as exact rationals   *)
(* <<numerator, denominator>> in lowest terms, so the arithmetic of the    *)
(* update rules is computed as written, without rounding.  Vectors are     *)
(* sequences indexed 1..n; the coordinate the code calls j is j+1 here,    *)
(* while iteration indices (t, rand_index, last_time) keep the code's      *)
(* 0-based values.                                                         *)
(***************************************************************************)
EXTENDS Integers, Sequences, FiniteSets, TLC

(***************************************************************************)
(* Bounds of the model.                                                    *)
(***************************************************************************)
\* largest epoch_size a solver is constructed with
MaxEpochSize == 3
\* number of solve() calls in one run
MaxSolves == 2
\* number of sampled iterations in one run, over all its solve() calls
MaxIterations == 4

(***************************************************************************)
(* Exact arithmetic on the values the code holds in doubles.               *)
(***************************************************************************)
Abs(n) == IF n < 0 THEN -n ELSE n

RECURSIVE GCD(_, _)
GCD(a, b) == IF b = 0 THEN a ELSE GCD(b, a % b)

\* the rational n/d (d > 0) in lowest terms
Rat(n, d) == LET g == GCD(Abs(n), d) IN <<n \div g, d \div g>>

RInt(n) == <<n, 1>>
RZero == RInt(0)
RAdd(a, b) == Rat(a[1] * b[2] + b[1] * a[2], a[2] * b[2])
RNeg(a) == <<-a[1], a[2]>>
RSub(a, b) == RAdd(a, RNeg(b))
RMul(a, b) == Rat(a[1] * b[1], a[2] * b[2])
\* a / n for an integer n > 0
RDivInt(a, n) == Rat(a[1], a[2] * n)
RScale(n, a) == Rat(n * a[1], a[2])
RIsNeg(a) == a[1] < 0
RAbs(a) == <<Abs(a[1]), a[2]>>
RLeq(a, b) == a[1] * b[2] <= b[1] * a[2]

RECURSIVE RSumTo(_, _)
\* v[1] + ... + v[n]
RSumTo(v, n) == IF n = 0 THEN RZero ELSE RAdd(RSumTo(v, n - 1), v[n])
RSum(v) == RSumTo(v, Len(v))

VZero(n) == [j \in 1..n |-> RZero]
\* ArrayDouble::mult_incr: x += a * y
MultIncr(x, y, a) == [j \in 1..Len(x) |-> RAdd(x[j], RMul(a, y[j]))]

(***************************************************************************)
(* The model collaborator: a generalized linear model (least squares) on   *)
(* a small feature matrix.  X[i] is the feature row of sample i, y[i] its  *)
(* label.                                                                  *)
(***************************************************************************)
\* every sample has a nonzero value at every feature
DataFull == [X |-> <<<<1, 2>>, <<1, 1>>>>, y |-> <<1, 0>>]
\* three samples; feature 1 is nonzero in two of them, feature 2 in one
DataSparse == [X |-> <<<<1, 0>>, <<1, 1>>, <<0, 0>>>>, y |-> <<1, 0, 1>>]
\* a feature column (feature 2) with no nonzero value
DataZeroColumn == [X |-> <<<<1, 0>>, <<2, 0>>>>, y |-> <<1, 0>>]

NoModel == [sparse |-> FALSE, intercept |-> FALSE, X |-> <<>>, y |-> <<>>]

Models ==
    {[sparse |-> FALSE, intercept |-> b, X |-> DataFull.X, y |-> DataFull.y]
        : b \in BOOLEAN}
    \cup
    {[sparse |-> TRUE, intercept |-> b, X |-> d.X, y |-> d.y]
        : b \in BOOLEAN, d \in {DataFull, DataSparse, DataZeroColumn}}

get_n_samples(m) == Len(m.X)
get_n_features(m) == IF m.X = <<>> THEN 0 ELSE Len(m.X[1])
get_n_coeffs(m) == get_n_features(m) + (IF m.intercept THEN 1 ELSE 0)

\* indices of the nonzero entries of the sparse row x_i, in storage order
Support(m, i) == {j \in 1..get_n_features(m) : m.X[i][j] # 0}

RECURSIVE InnerTo(_, _, _, _)
\* x_i[1] * w[1] + ... + x_i[n] * w[n]
InnerTo(m, i, w, n) ==
    IF n = 0 THEN RZero
    ELSE RAdd(InnerTo(m, i, w, n - 1), RScale(m.X[i][n], w[n]))

\* Model::grad_i_factor: the loss derivative at sample i, <x_i, w> + b - y_i
grad_i_factor(m, i, w) ==
    LET nf == get_n_features(m)
        lin == InnerTo(m, i, w, nf)
        b == IF m.intercept THEN w[nf + 1] ELSE RZero
    IN RSub(RAdd(lin, b), RInt(m.y[i]))

\* Model::grad_i: the per-sample gradient, x_ij times the factor, and the
\* factor itself at the intercept coordinate
grad_i(m, i, w) ==
    LET nf == get_n_features(m)
        f == grad_i_factor(m, i, w)
    IN [j \in 1..Len(w) |-> IF j <= nf THEN RScale(m.X[i][j], f) ELSE f]

\* Model::grad: the average of the per-sample gradients
grad(m, w) ==
    LET n == get_n_samples(m)
    IN [j \in 1..Len(w) |->
            RDivInt(RSum([i \in 1..n |-> grad_i(m, i, w)[j]]), n)]

\* ModelLabelsFeatures::compute_columns_non_zeros
compute_columns_non_zeros(m) ==
    [j \in 1..get_n_features(m) |->
        Cardinality({i \in 1..get_n_samples(m) : m.X[i][j] # 0})]

(***************************************************************************)
(* The proximal-operator collaborator.                                     *)
(*   Zero     : no penalty, separable, the identity                        *)
(*   L1       : separable soft-thresholding, threshold = step              *)
(*   Equality : non-separable, every coordinate becomes the mean           *)
(***************************************************************************)
NoProx == "none"
Proxes == {"Zero", "L1", "Equality"}

is_separable(px) == px \in {"Zero", "L1"}

SoftThreshold(x, th) ==
    IF RLeq(RAbs(x), th) THEN RZero
    ELSE IF RIsNeg(x) THEN RAdd(x, th) ELSE RSub(x, th)

\* Prox::call(coeffs, step, out) on the whole vector
ProxCall(px, v, s) ==
    CASE px = "L1" -> [j \in 1..Len(v) |-> SoftThreshold(v[j], s)]
      [] px = "Equality" -> [j \in 1..Len(v) |-> RDivInt(RSum(v), Len(v))]
      [] OTHER -> v

\* ProxSeparable::call_single(x, step)
ProxCallSingle(px, x, s) ==
    IF px = "L1" THEN SoftThreshold(x, s) ELSE x

\* ProxSeparable::call_single(x, step, n_times): n_times single steps at once
ProxCallSingleTimes(px, x, s, n) ==
    IF px = "L1" THEN SoftThreshold(x, RScale(n, s)) ELSE x

(***************************************************************************)
(* The solver.                                                             *)
(***************************************************************************)
VarianceReductionMethods == {"Last", "Average", "Random"}
\* DelayedUpdatesMethod is an enum class: besides Exact and Proba the field
\* can hold any other value of the underlying type ("Other")
DelayedUpdatesMethods == {"Exact", "Proba", "Other"}
StepVals == {0, 1}
EpochSizes == 1..MaxEpochSize

\* starting points handed to set_starting_iterate, for n coefficients
StartingIterates(n) ==
    {[j \in 1..n |-> RInt(IF j % 2 = 1 THEN 1 ELSE -1)]}

VARIABLES
    \* constructor arguments
    epoch_size, step, variance_reduction, delayed_updates,
    \* collaborators and the flags cached from them
    model, prox, is_model_sparse, n_features, use_intercept, is_prox_separable,
    \* solver fields
    iterate, next_iterate, fixed_w, full_gradient, last_time,
    steps_correction, ready_step_corrections, rand_index, t,
    \* position of the running solve() call, and solve_dense's local t
    pc, k,
    \* what the caller and the collaborators can observe of one run
    call_log,       \* routines entered by the current solve() call, in order
    sampled,        \* indices returned by get_next_i() in the current call
    trace,          \* the live iterate at the end of each iteration of the call
    iterate0,       \* the live iterate when the current call started
    starting_iterate,   \* the last vector given to set_starting_iterate
    n_full_grad,    \* per feature: full-gradient decrements applied in the call
    nz_calls,       \* calls of compute_columns_non_zeros since the last set_model
    div_by_zero,    \* an integer division by zero has been executed
    n_solves,       \* solve() calls that have returned
    solves_since_bind   \* solve() calls begun since the last set_model

cfg_vars == <<epoch_size, step, variance_reduction, delayed_updates>>
bind_vars == <<model, prox, is_model_sparse, n_features, use_intercept,
               is_prox_separable>>
field_vars == <<iterate, next_iterate, fixed_w, full_gradient, last_time,
                steps_correction, ready_step_corrections, rand_index, t>>
obs_vars == <<call_log, sampled, trace, iterate0, starting_iterate, n_full_grad, nz_calls,
              div_by_zero, n_solves, solves_since_bind>>
vars == <<cfg_vars, bind_vars, field_vars, pc, k, obs_vars>>

\* SVRG::SVRG
Init ==
    /\ epoch_size \in EpochSizes
    /\ step \in {RInt(s) : s \in StepVals}
    /\ variance_reduction \in VarianceReductionMethods
    /\ delayed_updates \in DelayedUpdatesMethods
    /\ ready_step_corrections = FALSE
    /\ model = NoModel
    /\ prox = NoProx
    /\ is_model_sparse = FALSE
    /\ n_features = 0
    /\ use_intercept = FALSE
    /\ is_prox_separable = FALSE
    /\ iterate = <<>>
    /\ next_iterate = <<>>
    /\ fixed_w = <<>>
    /\ full_gradient = <<>>
    /\ last_time = <<>>
    /\ steps_correction = <<>>
    /\ rand_index = 0
    /\ t = 0
    /\ pc = "idle"
    /\ k = 0
    /\ call_log = <<>>
    /\ sampled = <<>>
    /\ trace = <<>>
    /\ iterate0 = <<>>
    /\ starting_iterate = <<>>
    /\ n_full_grad = <<>>
    /\ nz_calls = 0
    /\ div_by_zero = FALSE
    /\ n_solves = 0
    /\ solves_since_bind = 0

\* no solve() call is running
Callable == pc \in {"idle", "returned"}

\* the run has room for one more epoch
MoreEpochs ==
    /\ n_solves < MaxSolves
    /\ (n_solves + 1) * epoch_size <= MaxIterations

\* SVRG::set_model, called before the first epoch or between two epochs
SetModel(m) ==
    /\ model = NoModel \/ pc = "returned"
    /\ MoreEpochs
    /\ model' = m
    /\ ready_step_corrections' = FALSE
    /\ is_model_sparse' = m.sparse
    /\ IF m.sparse
         THEN /\ n_features' = get_n_features(m)
              /\ use_intercept' = m.intercept
         ELSE UNCHANGED <<n_features, use_intercept>>
    /\ nz_calls' = 0
    /\ solves_since_bind' = 0
    /\ pc' = "idle"
    /\ UNCHANGED <<cfg_vars, prox, is_prox_separable, iterate, next_iterate,
                   fixed_w, full_gradient, last_time, steps_correction,
                   rand_index, t, k, call_log, sampled, trace, iterate0, starting_iterate,
                   n_full_grad, div_by_zero, n_solves>>

\* SVRG::set_prox; the prox is bound once in a run
SetProx(px) ==
    /\ Callable
    /\ prox = NoProx
    /\ prox' = px
    /\ is_prox_separable' = is_separable(px)
    /\ pc' = "idle"
    /\ UNCHANGED <<cfg_vars, model, is_model_sparse, n_features, use_intercept,
                   field_vars, k, obs_vars>>

\* SVRG::set_starting_iterate, called before the first epoch of a model
SetStartingIterate(w0) ==
    /\ Callable
    /\ model # NoModel
    /\ Len(iterate) # get_n_coeffs(model)
    /\ iterate' = w0
    /\ next_iterate' = w0
    /\ starting_iterate' = w0
    /\ pc' = "idle"
    /\ UNCHANGED <<cfg_vars, bind_vars, fixed_w, full_gradient, last_time,
                   steps_correction, ready_step_corrections, rand_index, t,
                   k, call_log, sampled, trace, iterate0, n_full_grad,
                   nz_calls, div_by_zero, n_solves, solves_since_bind>>

(***************************************************************************)
(* prepare_solve and the dispatch of solve().                              *)
(***************************************************************************)
\* n_samples / columns_non_zeros[j] is a division of two ulong.  With a zero
\* divisor it is undefined: the build either traps (the process dies) or
\* goes on with a quotient of 0.
UBOutcomes == {"trap", "zero"}

ULongDiv(n, c) == IF c = 0 THEN 0 ELSE n \div c

\* compute_step_corrections that forgets to set ready_step_corrections
ComputeStepCorrections_NotReady(ub) ==
    IF ~ready_step_corrections /\ model.sparse /\ delayed_updates = "Proba"
    THEN LET nf == get_n_features(model)
             ns == get_n_samples(model)
             columns_non_zeros == compute_columns_non_zeros(model)
             zero == \E j \in 1..nf : columns_non_zeros[j] = 0
         IN [ready |-> FALSE,
             sc |-> [j \in 1..nf |-> RInt(ULongDiv(ns, columns_non_zeros[j]))],
             calls |-> 1,
             div0 |-> zero,
             trapped |-> zero /\ ub = "trap"]
    ELSE [ready |-> ready_step_corrections, sc |-> steps_correction,
          calls |-> 0, div0 |-> FALSE, trapped |-> FALSE]

\* SVRG::compute_step_corrections; ub is the outcome of a division by zero.
\* The result holds the new ready_step_corrections and steps_correction, the
\* number of calls made to compute_columns_non_zeros, whether a division by
\* zero was executed and whether it trapped.
ComputeStepCorrections(ub) ==
    IF ~ready_step_corrections /\ model.sparse /\ delayed_updates = "Proba"
    THEN LET nf == get_n_features(model)
             ns == get_n_samples(model)
             columns_non_zeros == compute_columns_non_zeros(model)
             zero == \E j \in 1..nf : columns_non_zeros[j] = 0
         IN [ready |-> TRUE,
             sc |-> [j \in 1..nf |-> RInt(ULongDiv(ns, columns_non_zeros[j]))],
             calls |-> 1,
             div0 |-> zero,
             trapped |-> zero /\ ub = "trap"]
    ELSE [ready |-> ready_step_corrections, sc |-> steps_correction,
          calls |-> 0, div0 |-> FALSE, trapped |-> FALSE]

\* a fixed_w that shares the storage of next_iterate and so follows its zeroing
PrepareFixedW_Aliased ==
    IF variance_reduction \in {"Random", "Average"}
    THEN VZero(Len(next_iterate))
    ELSE next_iterate

\* prepare_solve, line 39: fixed_w receives a copy of next_iterate
PrepareFixedW == next_iterate

\* prepare_solve that leaves the previous epoch's next_iterate in place
PrepareNextIterate_NotZeroed == next_iterate

\* prepare_solve, lines 53-56: next_iterate as the epoch starts
PrepareNextIterate ==
    IF variance_reduction \in {"Random", "Average"}
    THEN VZero(Len(next_iterate))
    ELSE next_iterate

\* StoSolver::rand_unif(m): an index in [0, m)
RandUnif(m) == 0..(m - 1)

\* StoSolver::get_next_i: the index of a sample of the model
NextI == 1..get_n_samples(model)

\* the routine solve() dispatches to, "" when it calls none
Dispatch ==
    IF model.sparse
    THEN IF delayed_updates = "Exact" THEN "solve_sparse_exact_updates"
         ELSE IF delayed_updates = "Proba" THEN "solve_sparse_proba_updates"
         ELSE ""
    ELSE "solve_dense"

\* SVRG::solve up to the entry of the update routine: prepare_solve, then
\* the dispatch.  ri is the value returned by rand_unif(epoch_size).
SolveBegin(ri, ub) ==
    /\ Callable
    /\ MoreEpochs
    /\ model # NoModel
    /\ prox # NoProx
    /\ Len(iterate) = get_n_coeffs(model)
    /\ Len(next_iterate) = get_n_coeffs(model)
    /\ LET csc == IF is_model_sparse THEN ComputeStepCorrections(ub)
                  ELSE [ready |-> ready_step_corrections,
                        sc |-> steps_correction, calls |-> 0,
                        div0 |-> FALSE, trapped |-> FALSE]
           routine == Dispatch
       IN /\ fixed_w' = PrepareFixedW
          /\ full_gradient' = grad(model, PrepareFixedW)
          /\ last_time' = IF is_model_sparse
                            THEN [j \in 1..n_features |-> 0]
                            ELSE last_time
          /\ ready_step_corrections' = (csc.ready /\ ~csc.trapped)
          /\ steps_correction' = csc.sc
          /\ nz_calls' = nz_calls + csc.calls
          /\ div_by_zero' = (div_by_zero \/ csc.div0)
          /\ IF csc.trapped
               THEN /\ pc' = "crashed"
                    /\ call_log' = <<"prepare_solve">>
                    /\ UNCHANGED <<next_iterate, rand_index, t, k, n_solves>>
               ELSE /\ next_iterate' = PrepareNextIterate
                    /\ rand_index' = IF variance_reduction = "Random"
                                       THEN ri ELSE 0
                    /\ IF routine = ""
                         THEN /\ call_log' = <<"prepare_solve">>
                              /\ pc' = "returned"
                              /\ n_solves' = n_solves + 1
                              /\ UNCHANGED <<t, k>>
                         ELSE /\ call_log' = <<"prepare_solve", routine>>
                              /\ pc' = routine
                              /\ n_solves' = n_solves
                              /\ k' = 0
                              /\ t' = IF routine = "solve_dense" THEN t ELSE 0
    /\ sampled' = <<>>
    /\ trace' = <<>>
    /\ iterate0' = iterate
    /\ UNCHANGED starting_iterate
    /\ n_full_grad' = [j \in 1..get_n_features(model) |-> 0]
    /\ solves_since_bind' = solves_since_bind + 1
    /\ UNCHANGED <<cfg_vars, bind_vars, iterate>>

(***************************************************************************)
(* The variance-reduction snapshot taken at the end of iteration tt: nx is *)
(* next_iterate, w the live iterate.                                       *)
(***************************************************************************)
\* a snapshot at iteration rand_index that does not test the policy
VarianceReductionDense_AnyPolicy(nx, w, tt) ==
    LET r == IF tt = rand_index THEN w ELSE nx
    IN IF variance_reduction = "Average"
         THEN MultIncr(r, w, Rat(1, epoch_size))
         ELSE r

\* solve_dense, lines 103-108
VarianceReductionDense(nx, w, tt) ==
    LET r == IF variance_reduction = "Random" /\ tt = rand_index THEN w ELSE nx
    IN IF variance_reduction = "Average"
         THEN MultIncr(r, w, Rat(1, epoch_size))
         ELSE r

\* solve_sparse_proba_updates, lines 157-162
VarianceReductionProba(nx, w, tt) ==
    LET r == IF variance_reduction = "Random" /\ tt = rand_index THEN w ELSE nx
    IN IF variance_reduction = "Average"
         THEN MultIncr(r, w, Rat(1, epoch_size))
         ELSE r

\* a snapshot that is taken again at every iteration from rand_index on
VarianceReductionExact_FromIndexOn(nx, w, tt) ==
    LET r == IF variance_reduction = "Random" /\ tt >= rand_index THEN w ELSE nx
    IN IF variance_reduction = "Average"
         THEN MultIncr(r, w, Rat(1, epoch_size))
         ELSE r

\* solve_sparse_exact_updates, lines 226-231
VarianceReductionExact(nx, w, tt) ==
    LET r == IF variance_reduction = "Random" /\ tt = rand_index THEN w ELSE nx
    IN IF variance_reduction = "Average"
         THEN MultIncr(r, w, Rat(1, epoch_size))
         ELSE r

(***************************************************************************)
(* solve_dense                                                             *)
(***************************************************************************)
\* an iteration of solve_dense whose step multiplies the gradient difference
\* only, the full gradient being subtracted unscaled
DenseStep_FullGradientUnscaled(m, px, st, fw, fg, w, i) ==
    LET gi == grad_i(m, i, w)
        gf == grad_i(m, i, fw)
        w1 == [j \in 1..Len(w) |->
                 RSub(w[j], RAdd(RMul(st, RSub(gi[j], gf[j])), fg[j]))]
    IN ProxCall(px, w1, st)

\* one iteration of solve_dense on the iterate w with sample i: model m,
\* prox px, step st, reference point fw and its full gradient fg
DenseStep(m, px, st, fw, fg, w, i) ==
    LET gi == grad_i(m, i, w)
        gf == grad_i(m, i, fw)
        w1 == [j \in 1..Len(w) |->
                 RSub(w[j], RMul(st, RAdd(RSub(gi[j], gf[j]), fg[j])))]
    IN ProxCall(px, w1, st)

DenseIteration(i) ==
    /\ pc = "solve_dense"
    /\ k < epoch_size
    /\ LET w == DenseStep(model, prox, step, fixed_w, full_gradient, iterate, i)
       IN /\ iterate' = w
          /\ next_iterate' = VarianceReductionDense(next_iterate, w, k)
          /\ trace' = Append(trace, w)
    /\ sampled' = Append(sampled, i)
    /\ k' = k + 1
    /\ UNCHANGED <<cfg_vars, bind_vars, fixed_w, full_gradient, last_time,
                   steps_correction, ready_step_corrections, rand_index, t,
                   pc, call_log, iterate0, starting_iterate, n_full_grad, nz_calls, div_by_zero,
                   n_solves, solves_since_bind>>

\* the end of solve_dense, lines 110-113, and the return of solve()
DenseEnd ==
    /\ pc = "solve_dense"
    /\ k = epoch_size
    /\ next_iterate' = IF variance_reduction = "Last" THEN iterate
                       ELSE next_iterate
    /\ t' = t + epoch_size
    /\ pc' = "returned"
    /\ n_solves' = n_solves + 1
    /\ UNCHANGED <<cfg_vars, bind_vars, iterate, fixed_w, full_gradient,
                   last_time, steps_correction, ready_step_corrections,
                   rand_index, k, call_log, sampled, trace, iterate0, starting_iterate,
                   n_full_grad, nz_calls, div_by_zero, solves_since_bind>>

(***************************************************************************)
(* solve_sparse_exact_updates                                              *)
(***************************************************************************)
\* delay_j, lines 190-194 and 236-240: tt is the iteration counter t and lt
\* is last_time[j]
Delay(tt, lt) == IF tt > lt + 1 THEN tt - (lt + 1) ELSE 0

\* the delayed correction of coordinate value x, lines 198-205 and 241-246
CatchUp(x, d, fg_j) ==
    IF d > 0
    THEN LET x1 == RSub(x, RMul(RScale(d, step), fg_j))
         IN IF is_prox_separable
              THEN ProxCallSingleTimes(prox, x1, step, d)
              ELSE x1
    ELSE x

\* the update of a support coordinate, lines 207-211: x_ij is the feature
\* value and gd is grad_i_diff
SupportUpdate(x, x_ij, gd, fg_j) ==
    LET x1 == RSub(x, RMul(step, RAdd(RScale(x_ij, gd), fg_j)))
    IN IF is_prox_separable THEN ProxCallSingle(prox, x1, step) ELSE x1

\* grad_i_diff, lines 131 and 184
GradIDiff(i, w) ==
    RSub(grad_i_factor(model, i, w), grad_i_factor(model, i, fixed_w))

\* the update of the intercept coordinate, lines 152-154 and 221-223
InterceptUpdate(w, gd) ==
    IF use_intercept
    THEN [w EXCEPT ![n_features + 1] =
              RSub(@, RMul(step, RAdd(gd, full_gradient[n_features + 1])))]
    ELSE w

\* a whole-vector prox call made whether the prox is separable or not
NonSeparableProx_Always(w) == ProxCall(prox, w, step)

\* the whole-vector prox of a non-separable prox, lines 146-149 and 215-218
NonSeparableProx(w) ==
    IF ~is_prox_separable THEN ProxCall(prox, w, step) ELSE w

\* the iterate after iteration t of solve_sparse_exact_updates with sample i
ExactStep(w, i) ==
    LET gd == GradIDiff(i, w)
        supp == Support(model, i)
        w1 == [j \in 1..Len(w) |->
                 IF j \in supp
                 THEN SupportUpdate(
                          CatchUp(w[j], Delay(t, last_time[j]), full_gradient[j]),
                          model.X[i][j], gd, full_gradient[j])
                 ELSE w[j]]
    IN InterceptUpdate(NonSeparableProx(w1), gd)

\* a last_time that records the number of iterations run instead of the index
UpdateLastTime_OnePastIndex(lt, supp, tt) ==
    [j \in 1..Len(lt) |-> IF j \in supp THEN tt + 1 ELSE lt[j]]

\* line 213, over the support of the sample: last_time[j] = t
UpdateLastTime(lt, supp, tt) ==
    [j \in 1..Len(lt) |-> IF j \in supp THEN tt ELSE lt[j]]

ExactIteration(i) ==
    /\ pc = "solve_sparse_exact_updates"
    /\ t < epoch_size
    /\ LET w == ExactStep(iterate, i)
           supp == Support(model, i)
       IN /\ iterate' = w
          /\ next_iterate' = VarianceReductionExact(next_iterate, w, t)
          /\ trace' = Append(trace, w)
          /\ n_full_grad' = [j \in 1..n_features |->
                               IF j \in supp
                               THEN n_full_grad[j] + Delay(t, last_time[j]) + 1
                               ELSE n_full_grad[j]]
          /\ last_time' = UpdateLastTime(last_time, supp, t)
    /\ sampled' = Append(sampled, i)
    /\ t' = t + 1
    /\ UNCHANGED <<cfg_vars, bind_vars, fixed_w, full_gradient,
                   steps_correction, ready_step_corrections, rand_index,
                   pc, k, call_log, iterate0, starting_iterate, nz_calls, div_by_zero,
                   n_solves, solves_since_bind>>

\* the pass at the end of the epoch, lines 235-247
ExactFinalPass(w) ==
    [j \in 1..Len(w) |->
        IF j <= n_features
        THEN CatchUp(w[j], Delay(t, last_time[j]), full_gradient[j])
        ELSE w[j]]

\* the end of solve_sparse_exact_updates, lines 233-251, and the return
ExactEnd ==
    /\ pc = "solve_sparse_exact_updates"
    /\ t = epoch_size
    /\ LET w == ExactFinalPass(iterate)
       IN /\ iterate' = w
          /\ next_iterate' = IF variance_reduction = "Last" THEN w
                             ELSE next_iterate
    /\ n_full_grad' = [j \in 1..n_features |->
                          n_full_grad[j] + Delay(t, last_time[j])]
    /\ t' = t + epoch_size
    /\ pc' = "returned"
    /\ n_solves' = n_solves + 1
    /\ UNCHANGED <<cfg_vars, bind_vars, fixed_w, full_gradient, last_time,
                   steps_correction, ready_step_corrections, rand_index, k,
                   call_log, sampled, trace, iterate0, starting_iterate, nz_calls, div_by_zero, solves_since_bind>>

(***************************************************************************)
(* solve_sparse_proba_updates                                              *)
(***************************************************************************)
\* a support update whose single-coordinate prox gets the uncorrected step
ProbaSupportUpdate_PlainStepProx(x, x_ij, gd, fg_j, sc_j) ==
    LET x1 == RSub(x, RMul(step, RAdd(RScale(x_ij, gd), RMul(sc_j, fg_j))))
    IN IF is_prox_separable
         THEN ProxCallSingle(prox, x1, step)
         ELSE x1

\* the update of a support coordinate, lines 136-144: sc_j is
\* steps_correction[j]
ProbaSupportUpdate(x, x_ij, gd, fg_j, sc_j) ==
    LET x1 == RSub(x, RMul(step, RAdd(RScale(x_ij, gd), RMul(sc_j, fg_j))))
    IN IF is_prox_separable
         THEN ProxCallSingle(prox, x1, RMul(step, sc_j))
         ELSE x1

\* the iterate after one iteration of solve_sparse_proba_updates with sample i
ProbaStep(w, i) ==
    LET gd == GradIDiff(i, w)
        supp == Support(model, i)
        w1 == [j \in 1..Len(w) |->
                 IF j \in supp
                 THEN ProbaSupportUpdate(w[j], model.X[i][j], gd,
                                         full_gradient[j], steps_correction[j])
                 ELSE w[j]]
    IN InterceptUpdate(NonSeparableProx(w1), gd)

ProbaIteration(i) ==
    /\ pc = "solve_sparse_proba_updates"
    /\ t < epoch_size
    /\ LET w == ProbaStep(iterate, i)
       IN /\ iterate' = w
          /\ next_iterate' = VarianceReductionProba(next_iterate, w, t)
          /\ trace' = Append(trace, w)
    /\ sampled' = Append(sampled, i)
    /\ t' = t + 1
    /\ UNCHANGED <<cfg_vars, bind_vars, fixed_w, full_gradient, last_time,
                   steps_correction, ready_step_corrections, rand_index,
                   pc, k, call_log, iterate0, starting_iterate, n_full_grad, nz_calls,
                   div_by_zero, n_solves, solves_since_bind>>

\* the end of solve_sparse_proba_updates, lines 164-167, and the return
ProbaEnd ==
    /\ pc = "solve_sparse_proba_updates"
    /\ t = epoch_size
    /\ t' = t + epoch_size
    /\ next_iterate' = IF variance_reduction = "Last" THEN iterate
                       ELSE next_iterate
    /\ pc' = "returned"
    /\ n_solves' = n_solves + 1
    /\ UNCHANGED <<cfg_vars, bind_vars, iterate, fixed_w, full_gradient,
                   last_time, steps_correction, ready_step_corrections,
                   rand_index, k, call_log, sampled, trace, iterate0, starting_iterate,
                   n_full_grad, nz_calls, div_by_zero, solves_since_bind>>

(***************************************************************************)
(* The specification.                                                      *)
(***************************************************************************)
Next ==
    \/ \E m \in Models : SetModel(m)
    \/ \E px \in Proxes : SetProx(px)
    \/ \E w0 \in StartingIterates(get_n_coeffs(model)) : SetStartingIterate(w0)
    \/ \E ri \in RandUnif(epoch_size), ub \in UBOutcomes : SolveBegin(ri, ub)
    \/ \E i \in NextI : DenseIteration(i)
    \/ DenseEnd
    \/ \E i \in NextI : ExactIteration(i)
    \/ ExactEnd
    \/ \E i \in NextI : ProbaIteration(i)
    \/ ProbaEnd

Spec == Init /\ [][Next]_vars

(***************************************************************************)
(* Properties.                                                             *)
(***************************************************************************)
\* the last solve() call has returned and nothing was called since
Returned == pc = "returned"
\* the current or last solve() call entered an update routine
RoutineRan == Len(call_log) = 2
InRoutine(r) == RoutineRan /\ call_log[2] = r
SparseProba == model.sparse /\ delayed_updates = "Proba"
HasZeroColumn(m) ==
    \E j \in 1..get_n_features(m) : compute_columns_non_zeros(m)[j] = 0

\* the routine the dispatch rule names for the bound model and the policy
ExpectedRoutine ==
    IF ~model.sparse THEN "solve_dense"
    ELSE IF delayed_updates = "Exact" THEN "solve_sparse_exact_updates"
    ELSE IF delayed_updates = "Proba" THEN "solve_sparse_proba_updates"
    ELSE "none"

\* C1: when solve() has returned, it has run prepare_solve and then exactly
\* one update routine, the one the dispatch rule names, for exactly
\* epoch_size sampled iterations.
C1_SolveRunsExactlyOneRoutine ==
    Returned =>
        /\ Len(call_log) = 2
        /\ call_log[1] = "prepare_solve"
        /\ call_log[2] = ExpectedRoutine
        /\ Len(sampled) = epoch_size

\* C2: with a sparse model and a delayed-update policy that is neither Exact
\* nor Proba, solve() does not return normally.
C2_InvalidPolicyIsFatal ==
    (model.sparse /\ delayed_updates \notin {"Exact", "Proba"}) => ~Returned

\* C3: in sparse Proba mode with a feature column whose nonzero count is 0,
\* the division by that count is never performed, and solve() neither
\* enters the update routine nor returns normally.
C3_ZeroColumnIsFatalBeforeDivision ==
    /\ ~div_by_zero
    /\ (SparseProba /\ HasZeroColumn(model)) =>
           pc \notin {"solve_sparse_proba_updates", "returned"}

\* C4: once the step corrections of a sparse model under the Proba policy
\* are computed, steps_correction[j] * nonzero_count[j] = sample_count for
\* every feature j with a nonzero count.
C4_StepCorrectionIsExactRatio ==
    (SparseProba /\ ready_step_corrections) =>
        \A j \in 1..get_n_features(model) :
            LET c == compute_columns_non_zeros(model)[j]
            IN c > 0 => RScale(c, steps_correction[j])
                            = RInt(get_n_samples(model))

\* C5: compute_columns_non_zeros is called at most once between two
\* set_model() calls; under a sparse model and the Proba policy it is called
\* exactly once, in the first solve() after the set_model(), and otherwise
\* never.
C5_ColumnsNonZerosOncePerBinding ==
    nz_calls = IF SparseProba /\ solves_since_bind > 0 THEN 1 ELSE 0

\* a second model binding whose second epoch has run, the counts still
\* computed once
C5_Witness ==
    /\ SparseProba
    /\ Returned
    /\ solves_since_bind = 2
    /\ nz_calls = 1
    /\ ready_step_corrections

(***************************************************************************)
(* The unbatched form of the delayed correction, for C6 and C7.            *)
(***************************************************************************)
RECURSIVE MissedBefore(_, _)
\* the number of consecutive iterations just before iteration n (0-based)
\* of the current epoch whose sampled support did not contain feature j
MissedBefore(j, n) ==
    IF n = 0 THEN 0
    ELSE IF j \in Support(model, sampled[n]) THEN 0
    ELSE 1 + MissedBefore(j, n - 1)

\* the live iterate as iteration n (0-based) starts
IterateBefore(n) == IF n = 0 THEN iterate0 ELSE trace[n]

RECURSIVE SingleDecrements(_, _, _)
\* d single-step decrements step * full_gradient[j]
SingleDecrements(x, d, fg_j) ==
    IF d = 0 THEN x
    ELSE SingleDecrements(RSub(x, RMul(step, fg_j)), d - 1, fg_j)

RECURSIVE SingleProxes(_, _)
\* d single-step applications of the separable prox
SingleProxes(x, d) ==
    IF d = 0 THEN x ELSE SingleProxes(ProxCallSingle(prox, x, step), d - 1)

SequentialCatchUp(x, d, fg_j) ==
    LET x1 == SingleDecrements(x, d, fg_j)
    IN IF is_prox_separable THEN SingleProxes(x1, d) ELSE x1

\* the iterate iteration n of the exact routine must leave: every support
\* coordinate caught up one step at a time for the iterations it missed,
\* then this iteration's update
SequentialExactStep(n) ==
    LET w == IterateBefore(n)
        i == sampled[n + 1]
        gd == GradIDiff(i, w)
        supp == Support(model, i)
        w1 == [j \in 1..Len(w) |->
                 IF j \in supp
                 THEN SupportUpdate(
                          SequentialCatchUp(w[j], MissedBefore(j, n),
                                            full_gradient[j]),
                          model.X[i][j], gd, full_gradient[j])
                 ELSE w[j]]
    IN InterceptUpdate(NonSeparableProx(w1), gd)

\* C6: in the sparse exact routine, a coordinate j of the sampled support
\* that was outside the support for the d preceding iterations (d = t when
\* it was in no support yet) has, after the iteration, the value given by d
\* single-step decrements (and d single prox steps), then this iteration's
\* support update.
C6_DelayedCatchUpEqualsSequential ==
    (pc = "solve_sparse_exact_updates" /\ Len(trace) >= 1) =>
        LET n == Len(trace) - 1
        IN \A j \in Support(model, sampled[n + 1]) :
               trace[n + 1][j] = SequentialExactStep(n)[j]

\* feature j was in no sampled support of the current epoch
NeverSampled(j) == \A n \in 1..Len(sampled) : j \notin Support(model, sampled[n])

\* C7: when solve_sparse_exact_updates has returned, every feature has
\* received exactly epoch_size full-gradient decrements, and a feature that
\* was in no sampled support holds its starting value after epoch_size
\* single-step corrections.
C7_EveryFeatureFullyCaughtUp ==
    (Returned /\ InRoutine("solve_sparse_exact_updates")) =>
        \A j \in 1..n_features :
            /\ n_full_grad[j] = epoch_size
            /\ (NeverSampled(j) /\ is_prox_separable) =>
                   iterate[j] = SequentialCatchUp(iterate0[j], epoch_size,
                                                  full_gradient[j])

(***************************************************************************)
(* The dense routine replayed on the samples of the current epoch, for C8. *)
(***************************************************************************)
RECURSIVE DenseEpochTo(_)
\* the iterate solve_dense leaves after the first n samples of the epoch
DenseEpochTo(n) ==
    IF n = 0 THEN iterate0
    ELSE DenseStep(model, prox, step, fixed_w, full_gradient,
                   DenseEpochTo(n - 1), sampled[n])

FullyDense(m) ==
    \A i \in 1..get_n_samples(m) : \A j \in 1..get_n_features(m) : m.X[i][j] # 0

\* C8: on a feature matrix without zero entries and with an identity or a
\* non-separable prox, an epoch of the sparse exact routine leaves the
\* iterate an epoch of the dense routine leaves from the same starting
\* iterate and the same samples.
C8_ExactEqualsDenseOnFullMatrix ==
    (/\ Returned
     /\ InRoutine("solve_sparse_exact_updates")
     /\ FullyDense(model)
     /\ prox \in {"Zero", "Equality"}) =>
        iterate = DenseEpochTo(Len(sampled))

(***************************************************************************)
(* The snapshot policies.                                                  *)
(***************************************************************************)
UpdateRoutines ==
    {"solve_dense", "solve_sparse_exact_updates", "solve_sparse_proba_updates"}

\* an update routine is running or has returned
RoutineEntered == RoutineRan /\ pc \in UpdateRoutines \cup {"returned"}

\* C9: under the Random policy, in each update routine, rand_index is in
\* [0, epoch_size); next_iterate stays zero until iteration rand_index has
\* run and from then on, through the later iterations, the end-of-epoch pass
\* and the return of solve(), it is the live iterate that iteration left.
C9_RandomSnapshotTakenOnce ==
    (variance_reduction = "Random" /\ RoutineEntered) =>
        /\ rand_index \in 0..(epoch_size - 1)
        /\ Returned => Len(trace) = epoch_size
        /\ next_iterate = IF Len(trace) > rand_index
                            THEN trace[rand_index + 1]
                            ELSE VZero(Len(iterate))

\* the exact routine has returned; the snapshot of iteration 0 differs from
\* the iterate the later iteration and the final pass left
C9_Witness ==
    /\ variance_reduction = "Random"
    /\ Returned
    /\ InRoutine("solve_sparse_exact_updates")
    /\ epoch_size >= 2
    /\ rand_index = 0
    /\ next_iterate = trace[1]
    /\ trace[1] # trace[2]
    /\ next_iterate # iterate
    /\ iterate # trace[epoch_size]

RECURSIVE TraceSumTo(_, _)
\* the sum over the first n iterations of coordinate j of the live iterate
TraceSumTo(j, n) ==
    IF n = 0 THEN RZero ELSE RAdd(TraceSumTo(j, n - 1), trace[n][j])

\* C10: under the Average policy, when solve() has returned from an update
\* routine, next_iterate * epoch_size is the sum of the epoch_size iterates
\* the iterations of this epoch left.
C10_AverageIsMeanOfEpoch ==
    (variance_reduction = "Average" /\ Returned /\ RoutineRan) =>
        /\ Len(trace) = epoch_size
        /\ \A j \in 1..Len(iterate) :
               RScale(epoch_size, next_iterate[j]) = TraceSumTo(j, epoch_size)

\* a second epoch has returned with a nonzero mean of two different iterates
C10_Witness ==
    /\ variance_reduction = "Average"
    /\ Returned
    /\ RoutineRan
    /\ n_solves = 2
    /\ epoch_size = 2
    /\ trace[1] # trace[2]
    /\ fixed_w # VZero(Len(iterate))
    /\ next_iterate # VZero(Len(iterate))


\* C11: under the Last policy, in each update routine, next_iterate keeps
\* through the iterations the value the epoch started with (the reference
\* point), and when solve() has returned it is the final iterate of the
\* epoch: in the sparse exact routine the one the end-of-epoch pass left.
C11_LastSnapshotIsFinalIterate ==
    (variance_reduction = "Last" /\ RoutineEntered) =>
        /\ pc \in UpdateRoutines => next_iterate = fixed_w
        /\ Returned =>
               /\ next_iterate = iterate
               /\ Len(trace) = epoch_size
               /\ call_log[2] # "solve_sparse_exact_updates" =>
                      next_iterate = trace[epoch_size]

\* the exact routine has returned and its final pass moved the iterate away
\* from what the last iteration left and from the reference point
C11_Witness ==
    /\ variance_reduction = "Last"
    /\ Returned
    /\ InRoutine("solve_sparse_exact_updates")
    /\ iterate # trace[epoch_size]
    /\ next_iterate = iterate
    /\ next_iterate # fixed_w


\* every solve() call of the run was made with the model now bound
AllSolvesUnderBinding ==
    solves_since_bind = n_solves + (IF pc \in UpdateRoutines THEN 1 ELSE 0)

\* the proxes that are the identity when called with step 0: no penalty, and
\* soft-thresholding, whose threshold is then 0
IdentityAtStepZero == {"Zero", "L1"}

\* C12: with a dense model, step = 0 and a prox that is the identity at
\* step 0, the iterate is the starting iterate after every iteration of
\* every solve() call, whatever the policy and the samples.
C12_ZeroStepLeavesIterate ==
    (/\ model # NoModel
     /\ ~model.sparse
     /\ step = RZero
     /\ prox \in IdentityAtStepZero
     /\ AllSolvesUnderBinding) =>
        /\ iterate = starting_iterate
        /\ \A n \in 1..Len(trace) : trace[n] = starting_iterate

\* two epochs of the dense routine have returned with step 0, with a full
\* gradient that is not zero
C12_Witness ==
    /\ ~model.sparse
    /\ step = RZero
    /\ prox = "L1"
    /\ Returned
    /\ InRoutine("solve_dense")
    /\ n_solves = 2
    /\ solves_since_bind = 2
    /\ full_gradient # VZero(Len(iterate))
    /\ iterate = starting_iterate
    /\ starting_iterate # VZero(Len(iterate))


\* a step that is the prepare_solve of a solve() call
IsPrepareSolve == solves_since_bind' = solves_since_bind + 1

\* C13: the fixed_w an epoch uses is the value next_iterate had when the
\* previous epoch returned (the starting iterate for the first epoch), also
\* when prepare_solve zeroes next_iterate, and no iteration or end of an
\* update routine modifies fixed_w or full_gradient.
C13_FixedWIsPreviousNextIterate ==
    [][ /\ IsPrepareSolve =>
               /\ fixed_w' = next_iterate
               /\ n_solves = 0 => fixed_w' = starting_iterate
        /\ pc \in UpdateRoutines =>
               /\ fixed_w' = fixed_w
               /\ full_gradient' = full_gradient ]_vars

\* a second epoch has run its iterations on a reference point that is
\* neither zero nor the starting iterate while next_iterate was zeroed
C13_Witness ==
    /\ variance_reduction \in {"Random", "Average"}
    /\ Returned
    /\ RoutineRan
    /\ n_solves = 2
    /\ solves_since_bind = 2
    /\ fixed_w # VZero(Len(fixed_w))
    /\ fixed_w # starting_iterate
    /\ fixed_w # next_iterate


\* the iteration indices (from 0) of the current epoch, among its first n
\* iterations, whose sample has feature j in its support
VisitsOf(j, n) == {m \in 0..(n - 1) : j \in Support(model, sampled[m + 1])}

\* the largest of them, 0 when there is none
LastVisit(j, n) ==
    IF VisitsOf(j, n) = {} THEN 0
    ELSE CHOOSE m \in VisitsOf(j, n) : \A o \in VisitsOf(j, n) : o <= m

\* C14: in solve_sparse_exact_updates last_time is all zeros when the epoch
\* starts, after each iteration last_time[j] is the largest iteration index
\* so far whose support contained j (0 if none), and the end-of-epoch pass
\* leaves it as the last iteration did.
C14_LastTimeIsLastVisit ==
    (InRoutine("solve_sparse_exact_updates")
         /\ pc \in {"solve_sparse_exact_updates", "returned"}) =>
        /\ Len(last_time) = n_features
        /\ \A j \in 1..n_features : last_time[j] = LastVisit(j, Len(sampled))
        /\ Returned => Len(sampled) = epoch_size

\* a second epoch of the exact routine has returned with a feature last
\* visited after iteration 0 and a feature no sample of the epoch contained
C14_Witness ==
    /\ InRoutine("solve_sparse_exact_updates")
    /\ Returned
    /\ n_solves = 2
    /\ \E j \in 1..n_features : last_time[j] >= 1
    /\ \E j \in 1..n_features : last_time[j] = 0 /\ VisitsOf(j, epoch_size) = {}


SparseRoutines == {"solve_sparse_exact_updates", "solve_sparse_proba_updates"}

\* a sparse update routine is running or has returned
InSparseRoutine ==
    /\ RoutineRan
    /\ call_log[2] \in SparseRoutines
    /\ pc \in SparseRoutines \cup {"returned"}

\* the intercept coordinate after iteration n (0-based) when only the
\* intercept update has acted on it
InterceptAfter(n) ==
    RSub(IterateBefore(n)[n_features + 1],
         RMul(step, RAdd(GradIDiff(sampled[n + 1], IterateBefore(n)),
                         full_gradient[n_features + 1])))

\* C15: in both sparse routines, with an intercept, every iteration changes
\* the intercept coordinate by exactly -step * (grad_i_diff +
\* full_gradient[n_features]) and nothing else writes it, with a separable
\* and with a non-separable prox alike; the end-of-epoch pass leaves it.
C15_InterceptOnlyGradientStep ==
    (InSparseRoutine /\ use_intercept) =>
        /\ \A n \in 0..(Len(trace) - 1) :
               trace[n + 1][n_features + 1] = InterceptAfter(n)
        /\ (Returned /\ Len(trace) > 0) =>
               iterate[n_features + 1] = trace[Len(trace)][n_features + 1]


\* the features outside the support of the sample of iteration n (0-based)
OutsideSupport(n) == (1..n_features) \ Support(model, sampled[n + 1])

\* C16: in both sparse routines with a separable prox, an iteration leaves
\* every feature coordinate outside the support of its sample as it was.
C16_IterationStaysInSupport ==
    (InSparseRoutine /\ is_prox_separable) =>
        \A n \in 0..(Len(trace) - 1) : \A j \in OutsideSupport(n) :
            trace[n + 1][j] = IterateBefore(n)[j]

\* an iteration with a soft-thresholding prox and step 1 has changed a
\* support coordinate and left a non-zero coordinate outside the support
C16_Witness ==
    /\ InSparseRoutine
    /\ prox = "L1"
    /\ step # RZero
    /\ \E n \in 0..(Len(trace) - 1) :
          /\ \E j \in OutsideSupport(n) :
                 trace[n + 1][j] # RZero /\ trace[n + 1][j] = IterateBefore(n)[j]
          /\ \E j \in Support(model, sampled[n + 1]) :
                 trace[n + 1][j] # IterateBefore(n)[j]


\* the iterate iteration n (0-based) of the probabilistic routine must leave
\* on the feature coordinates: on the support of the sample, the corrected
\* gradient step and, for a separable prox, one single-coordinate prox with
\* step * steps_correction[j]; for a non-separable prox, one whole-vector
\* prox with step after the support has been updated
ProbaExpected(n) ==
    LET w == IterateBefore(n)
        i == sampled[n + 1]
        gd == RSub(grad_i_factor(model, i, w), grad_i_factor(model, i, fixed_w))
        moved(j) == RSub(w[j],
                         RMul(step, RAdd(RScale(model.X[i][j], gd),
                                         RMul(steps_correction[j],
                                              full_gradient[j]))))
        u == [j \in 1..Len(w) |->
                IF j <= n_features /\ model.X[i][j] # 0
                THEN IF is_separable(prox)
                       THEN ProxCallSingle(prox, moved(j),
                                           RMul(step, steps_correction[j]))
                       ELSE moved(j)
                ELSE w[j]]
    IN IF is_separable(prox) THEN u ELSE ProxCall(prox, u, step)

\* C17: in solve_sparse_proba_updates every iteration leaves on the feature
\* coordinates the corrected gradient step of the support followed by the
\* single-coordinate prox with step * steps_correction[j] (separable prox)
\* or by one whole-vector prox with step (non-separable prox); last_time
\* stays as prepare_solve zeroed it, and the iterate solve() returns is the
\* one the last iteration left.
C17_ProbaUpdateRule ==
    (InRoutine("solve_sparse_proba_updates")
         /\ pc \in {"solve_sparse_proba_updates", "returned"}) =>
        /\ \A n \in 0..(Len(trace) - 1) : \A j \in 1..n_features :
               trace[n + 1][j] = ProbaExpected(n)[j]
        /\ last_time = [j \in 1..n_features |-> 0]
        /\ Returned => (Len(trace) = epoch_size /\ iterate = trace[epoch_size])

\* an epoch of the probabilistic routine has returned after updating, with a
\* soft-thresholding prox and step 1, a coordinate whose step correction is
\* not 1
C17_Witness ==
    /\ InRoutine("solve_sparse_proba_updates")
    /\ Returned
    /\ prox = "L1"
    /\ step # RZero
    /\ \E n \in 0..(Len(trace) - 1) : \E j \in Support(model, sampled[n + 1]) :
          /\ steps_correction[j] # RInt(1)
          /\ steps_correction[j] # RZero
          /\ trace[n + 1][j] # IterateBefore(n)[j]


\* C18: the iteration counter t grows by exactly epoch_size on every solve()
\* call that runs an update routine, dense or sparse, so that from t = 0 it
\* is k * epoch_size after k calls.
C18_CounterAdvancesByEpochSize ==
    (Returned /\ RoutineRan /\ delayed_updates \in {"Exact", "Proba"}) =>
        t = n_solves * epoch_size

====
